---------------------------- MODULE Spec2Model ----------------------------
(***************************************************************************)
(* Black-Scholes implied volatility and Greeks (amitvashis/option_data).   *)
(*                                                                         *)
(* Components, each with its own specification (mode tells them apart):    *)
(*   SpecBracket  _solve_iv               src/compute_greeks.py            *)
(*   SpecPool     main's pool fan-out     src/compute_greeks.py            *)
(*   SpecNewton   vectorized_iv           src/VI_data_extraction/          *)
(*                                            calculate_vi_2024.py         *)
(*   SpecScalar   implied_volatility      src/VI_data_extraction/VI.py     *)
(*   SpecGreeks   compute_greeks_vectorized  src/compute_greeks.py         *)
(*   SpecFrame    the three array functions over one heap of buffers       *)
(*   SpecRoundTrip  _bs_price, then _solve_iv or vectorized_iv             *)
(*   SpecShapes   the array functions on arrays of different lengths       *)
(*   SpecImport   N_WORKERS                 src/compute_greeks.py          *)
(*   SpecBacktest run_iv_rank_backtest      src/backtesting/               *)
(*                                            iv_rank_strategy.py          *)
(*   SpecNewtonFair  vectorized_iv, with weak fairness (termination)       *)
(*   SpecMetrics  calc_metrics, summary     src/backtesting/utils.py,      *)
(*                                            run_backtest.py              *)
(*   SpecDateChunks  generate_date_chunks   src/VI_data_extraction/        *)
(*                                            extract_vix.py               *)
(*                                                                         *)
(* Numbers.  A float is an integer in fixed point, or NaN.  Volatilities   *)
(* are in thousandths (IV_LOWER = 0.001 is 1).  Prices, strikes, times and *)
(* price differences are kept by sign (-1, 0, 1): the code branches on     *)
(* their sign only.  The values of _bs_price, of the Newton quotient       *)
(* diff / vega and of brentq are results of floating-point library code;   *)
(* they are inputs of the model: carried with a row (bracketed solver) or  *)
(* chosen per iteration (Newton solvers), over every value of their class. *)
(***************************************************************************)
EXTENDS Integers, Sequences, FiniteSets, TLC

VARIABLES
    mode,       \* which function is running
    pc,         \* its position
    heap,       \* the arrays and lists in memory: buffer id -> contents
    loc,        \* the running function's local names: name -> buffer id
    in0,        \* the input buffers as they were at the call
    b_args,     \* _solve_iv: the row it is called with
    b_out,      \* _solve_iv: what the call did
    p_all_args, \* main: all_args
    p_sub,      \* main: SUB_CHUNK
    p_workers,  \* main: N_WORKERS
    p_task,     \* Pool.imap: next chunk to hand to a worker (1-based)
    p_running,  \* Pool: worker -> chunk it is solving (0: idle)
    p_ready,    \* Pool.imap: finished chunk -> its result
    p_finished, \* chunks in the order the workers finished them
    p_i,        \* main: enumerate's i (0-based), the next result to take
    p_iv_arr,   \* main: iv_arr
    p_done,     \* main: done
    p_writes,   \* per slot of iv_arr, the chunks that wrote it, in order
    p_reports,  \* main: progress lines printed
    p_greeks,   \* main: what compute_greeks_vectorized read and returned
    n_iter,     \* vectorized_iv: iterations of the for loop executed
    n_entered,  \* vectorized_iv: rows that were in the active set of an iteration
    n_why,      \* vectorized_iv: per row, why it left the active set
    n_out,      \* vectorized_iv: per row, what lines 47-64 computed for it in
                \* the last iteration
    n_sets,     \* vectorized_iv: converged_idx, failed_idx and bad_sigma_idx
                \* of the last iteration
    s_sigma,    \* implied_volatility: sigma
    s_iter,     \* implied_volatility: iterations executed
    s_ret,      \* implied_volatility: the value returned
    rt_sigma,   \* round trip: per row, the volatility its price was computed at
    cpu_count,  \* what os.cpu_count() returns on the platform
    N_WORKERS,  \* compute_greeks: N_WORKERS (0: not assigned)
    open_positions, \* run_iv_rank_backtest: open_positions, as its items
    bt_row,     \* run_iv_rank_backtest: the row of the loop
    bt_seen,    \* the symbols that had a row on the date of bt_row
    bt_trade,   \* the trade the row appended to trades, if it did
    m_pnl_series, \* calc_metrics: pnl_series, the P&L of the trades
    m_metrics,  \* the dict calc_metrics returned, as the runner holds it
    g_start,    \* generate_date_chunks: start
    g_end,      \* generate_date_chunks: end
    g_chunk_days, \* generate_date_chunks: chunk_days
    g_current_start, \* generate_date_chunks: current_start
    g_chunks    \* generate_date_chunks: chunks

vars == << mode, pc, heap, loc, in0, b_args, b_out, p_all_args, p_sub,
           p_workers, p_task, p_running, p_ready, p_finished, p_i,
           p_iv_arr, p_done, p_writes, p_reports, p_greeks, n_iter, n_entered,
           n_why,
           n_out, n_sets,
           s_sigma, s_iter, s_ret, rt_sigma, cpu_count, N_WORKERS,
           open_positions, bt_row, bt_seen, bt_trade,
           m_pnl_series, m_metrics,
           g_start, g_end, g_chunk_days, g_current_start, g_chunks >>

-----------------------------------------------------------------------------
(* Floats *)

\* np.nan
NaN == -99999

\* None, where the code has a number or None
None == 0

IsNaN(x) == x = NaN

\* x <= 0, x > 0, x < 0 on floats: every comparison with NaN is False
FLe0(x) == ~IsNaN(x) /\ x <= 0
FGt0(x) == ~IsNaN(x) /\ x > 0
FLt0(x) == ~IsNaN(x) /\ x < 0

\* a * b on floats
FMul(a, b) == IF IsNaN(a) \/ IsNaN(b) THEN NaN ELSE a * b

\* np.isfinite
IsFinite(x) == ~IsNaN(x)

Signs == {-1, 0, 1}

-----------------------------------------------------------------------------
(* Bounds of the model *)

MaxRows == 3
MaxChunk == 2
MaxWorkers == 2
ReportEvery == 2

-----------------------------------------------------------------------------
(* _solve_iv: the bracketed per-row solver *)

IV_LOWER == 1
IV_UPPER == 5000

\* what brentq(f, IV_LOWER, IV_UPPER, maxiter=100, xtol=1e-8) does: it returns
\* a point of the bracket, or raises ValueError (no sign change, a NaN
\* function value) or RuntimeError (no convergence in maxiter iterations)
BrentqRaises == {"ValueError", "RuntimeError"}

\* (mutant) a root-finder that may step outside the bracket it was given
BrentqOutcomesOutside ==
    { [kind |-> "root", val |-> v, exc |-> "none"] :
         v \in {IV_LOWER - 1, IV_LOWER, 146, IV_UPPER, IV_UPPER + 1} }
    \cup { [kind |-> "raise", val |-> NaN, exc |-> e] : e \in BrentqRaises }

BrentqOutcomes ==
    { [kind |-> "root", val |-> v, exc |-> "none"] : v \in {IV_LOWER, 146, IV_UPPER} }
    \cup { [kind |-> "raise", val |-> NaN, exc |-> e] : e \in BrentqRaises }

\* the argument tuples: S, K, T, mkt_price, is_call of the row (r and q are
\* the same constants in every row), with the values lines 54, 55 and 58-59
\* compute from them: f_lo, f_hi and the outcome of brentq
Rows ==
    [ S : Signs, K : Signs, T : Signs, mkt_price : Signs, is_call : BOOLEAN,
      f_lo : Signs \cup {NaN}, f_hi : Signs \cup {NaN}, brentq : BrentqOutcomes ]

\* (mutant) the test written with < for <=
InvalidRowStrict(a) == FLt0(a.T) \/ FLt0(a.mkt_price) \/ FLt0(a.S) \/ FLt0(a.K)

\* if T <= 0 or mkt_price <= 0 or S <= 0 or K <= 0
InvalidRow(a) == FLe0(a.T) \/ FLe0(a.mkt_price) \/ FLe0(a.S) \/ FLe0(a.K)

\* (mutant) the bracket test inverted
NoBracketInverted(a) == FLt0(FMul(a.f_lo, a.f_hi))

\* (mutant) the bracket test written with >= for >
NoBracketNonNegative(a) ==
    ~IsNaN(FMul(a.f_lo, a.f_hi)) /\ FMul(a.f_lo, a.f_hi) >= 0

\* if f_lo * f_hi > 0
NoBracket(a) == FGt0(FMul(a.f_lo, a.f_hi))

\* (mutant) except ValueError
CaughtValueError == {"ValueError"}

\* except (ValueError, RuntimeError)
Caught == {"ValueError", "RuntimeError"}

\* One call.  ret: the value returned (NaN also when nothing is returned);
\* raised: the exception that leaves the call; evals: the evaluations of
\* _bs_price at the bounds; brentq: the calls of the root-finder.
SolveIv(a) ==
    IF InvalidRow(a)
    THEN [ret |-> NaN, raised |-> "none", evals |-> 0, brentq |-> 0]
    ELSE IF NoBracket(a)
    THEN [ret |-> NaN, raised |-> "none", evals |-> 2, brentq |-> 0]
    ELSE IF a.brentq.kind = "root"
    THEN [ret |-> a.brentq.val, raised |-> "none", evals |-> 2, brentq |-> 1]
    ELSE IF a.brentq.exc \in Caught
    THEN [ret |-> NaN, raised |-> "none", evals |-> 2, brentq |-> 1]
    ELSE [ret |-> NaN, raised |-> a.brentq.exc, evals |-> 2, brentq |-> 1]

\* (mutant) the loop stops at the first row whose result is the sentinel
SolveIvChunkStopsAtFailure(chunk_args) ==
    LET outs == [j \in 1..Len(chunk_args) |-> SolveIv(chunk_args[j])]
        bad == {j \in 1..Len(chunk_args) : IsNaN(outs[j].ret)}
        last == IF bad = {} THEN Len(chunk_args)
                ELSE CHOOSE j \in bad : \A k \in bad : j <= k
    IN  [ results |-> [j \in 1..last |-> outs[j].ret], raised |-> "none" ]

\* results = []; for args in chunk_args: results.append(_solve_iv(args))
\* An exception leaving _solve_iv leaves the chunk: no list is returned.
SolveIvChunk(chunk_args) ==
    LET outs == [j \in 1..Len(chunk_args) |-> SolveIv(chunk_args[j])]
        bad == {j \in 1..Len(chunk_args) : outs[j].raised # "none"}
    IN  [ results |-> IF bad = {} THEN [j \in 1..Len(chunk_args) |-> outs[j].ret]
                      ELSE << >>,
          raised |-> IF bad = {} THEN "none"
                     ELSE outs[CHOOSE j \in bad : \A k \in bad : j <= k].raised ]


-----------------------------------------------------------------------------
(* Variables a specification does not use stay as they are here *)

NoOut == [ret |-> NaN, raised |-> "none", evals |-> 0, brentq |-> 0]

\* compute_greeks_vectorized has not been called
NoGreeks == [sigma |-> << >>, valid |-> << >>, delta |-> << >>, gamma |-> << >>,
             vega |-> << >>, theta |-> << >>, rho |-> << >>]

\* no row of straddles yet, and no trade appended
NoStraddle == [TckrSymb |-> "", TradDt |-> 0, IVRank |-> 0]
NoTrade == [EntryDate |-> 0, DaysHeld |-> 0, ExitReason |-> ""]

NoRow ==
    [ S |-> 0, K |-> 0, T |-> 0, mkt_price |-> 0, is_call |-> FALSE,
      f_lo |-> NaN, f_hi |-> NaN,
      brentq |-> [kind |-> "raise", val |-> NaN, exc |-> "ValueError"] ]

heapVars == << heap, loc, in0 >>
bVars == << b_args, b_out >>
pVars == << p_all_args, p_sub, p_workers, p_task, p_running, p_ready,
            p_finished, p_i, p_iv_arr, p_done, p_writes, p_reports,
            p_greeks >>
\* no iteration has run: the three index arrays do not exist yet
NoSets == [converged |-> {}, failed |-> {}, bad_sigma |-> {}]

nVars == << n_iter, n_entered, n_why, n_out, n_sets >>
sVars == << s_sigma, s_iter, s_ret >>
btVars == << open_positions, bt_row, bt_seen, bt_trade >>
mVars == << m_pnl_series, m_metrics >>
gVars == << g_start, g_end, g_chunk_days, g_current_start, g_chunks >>
utilVars == << mVars, gVars >>
extVars == << rt_sigma, cpu_count, N_WORKERS, btVars, utilVars >>

IdleHeap == heap = << >> /\ loc = << >> /\ in0 = << >>
IdleBracket == b_args = NoRow /\ b_out = NoOut
IdlePool ==
    /\ p_all_args = << >> /\ p_sub = 1 /\ p_workers = 1 /\ p_task = 1
    /\ p_running = << >> /\ p_ready = << >> /\ p_finished = << >>
    /\ p_i = 0 /\ p_iv_arr = << >> /\ p_done = 0 /\ p_writes = << >>
    /\ p_reports = 0 /\ p_greeks = NoGreeks
IdleNewton ==
    /\ n_iter = 0 /\ n_entered = {} /\ n_why = << >> /\ n_out = << >>
    /\ n_sets = NoSets
IdleScalar == s_sigma = NaN /\ s_iter = 0 /\ s_ret = NaN
IdleRoundTrip == rt_sigma = << >>
IdleImport == cpu_count = None /\ N_WORKERS = 0
IdleBacktest ==
    open_positions = {} /\ bt_row = NoStraddle /\ bt_seen = {} /\ bt_trade = NoTrade
\* no metrics computed: the name is not bound to a dict
NoMetrics == [unbound |-> TRUE]

IdleMetrics == m_pnl_series = << >> /\ m_metrics = NoMetrics
IdleChunks ==
    /\ g_start = 0 /\ g_end = 0 /\ g_chunk_days = 0
    /\ g_current_start = 0 /\ g_chunks = << >>
IdleUtil == IdleMetrics /\ IdleChunks
IdleOther == IdleImport /\ IdleBacktest /\ IdleUtil

-----------------------------------------------------------------------------
(* SpecBracket: one call of _solve_iv on any row *)

InitBracket ==
    /\ mode = "bracket" /\ pc = "call"
    /\ b_args \in Rows /\ b_out = NoOut
    /\ IdleHeap /\ IdlePool /\ IdleNewton /\ IdleScalar /\ IdleRoundTrip /\ IdleOther

SolveIvCall ==
    /\ mode = "bracket" /\ pc = "call"
    /\ b_out' = SolveIv(b_args)
    /\ pc' = IF SolveIv(b_args).raised = "none" THEN "returned" ELSE "raised"
    /\ UNCHANGED << mode, b_args, heapVars, pVars, nVars, sVars, extVars >>

NextBracket == SolveIvCall

SpecBracket == InitBracket /\ [][NextBracket]_vars


-----------------------------------------------------------------------------
(* SpecPool: main's fan-out over mp.Pool(N_WORKERS).imap and its collection *)

Min(a, b) == IF a <= b THEN a ELSE b

\* s[lo:hi] of a Python list (0-based, hi clipped to the length)
PySlice(s, lo, hi) == SubSeq(s, lo + 1, Min(hi, Len(s)))

\* len(range(0, n, c))
RangeLen(n, c) == (n + c - 1) \div c

\* (mutant) all_args[i:i+SUB_CHUNK+1]: neighbouring chunks share a row
ChunksOverlapping(all_args, c) ==
    [m \in 1..RangeLen(Len(all_args), c) |->
        PySlice(all_args, (m - 1) * c, (m - 1) * c + c + 1)]

\* chunks = [all_args[i:i+SUB_CHUNK] for i in range(0, len(all_args), SUB_CHUNK)]
Chunks(all_args, c) ==
    [m \in 1..RangeLen(Len(all_args), c) |->
        PySlice(all_args, (m - 1) * c, (m - 1) * c + c)]

p_chunks == Chunks(p_all_args, p_sub)

\* a chunk no worker has finished, and one main has taken
Pending == [results |-> << >>, raised |-> "pending"]
Taken == [results |-> << >>, raised |-> "taken"]

\* the rows of the pool runs: an expired row, a row that is solved, and a row
\* on which brentq does not converge
MkRow(T, f_lo, f_hi, root) ==
    [ S |-> 1, K |-> 1, T |-> T, mkt_price |-> 1, is_call |-> TRUE,
      f_lo |-> f_lo, f_hi |-> f_hi,
      brentq |-> [kind |-> "root", val |-> root, exc |-> "none"] ]

MkRowRaising(exc) ==
    [ S |-> 1, K |-> 1, T |-> 1, mkt_price |-> 1, is_call |-> TRUE,
      f_lo |-> -1, f_hi |-> 1,
      brentq |-> [kind |-> "raise", val |-> NaN, exc |-> exc] ]

PoolRows == { MkRow(0, -1, 1, 146), MkRow(1, -1, 1, 146), MkRowRaising("RuntimeError") }

SeqsUpTo(S, n) == UNION { [1..k -> S] : k \in 0..n }

InitPool ==
    /\ mode = "pool" /\ pc = "collect"
    /\ p_all_args \in SeqsUpTo(PoolRows, MaxRows)
    /\ p_sub \in 1..MaxChunk
    /\ p_workers \in 1..MaxWorkers
    /\ p_task = 1
    /\ p_running = [w \in 1..p_workers |-> 0]
    /\ p_ready = [m \in 1..RangeLen(Len(p_all_args), p_sub) |-> Pending]
    /\ p_finished = << >>
    /\ p_i = 0
    /\ p_iv_arr = [k \in 1..Len(p_all_args) |-> NaN]
    /\ p_done = 0
    /\ p_writes = [k \in 1..Len(p_all_args) |-> << >>]
    /\ p_reports = 0 /\ p_greeks = NoGreeks
    /\ IdleHeap /\ IdleBracket /\ IdleNewton /\ IdleScalar /\ IdleRoundTrip /\ IdleOther

\* an idle worker takes the next chunk of the task queue, in submission order
WorkerTake(w) ==
    /\ mode = "pool" /\ pc = "collect"
    /\ p_running[w] = 0
    /\ p_task <= Len(p_chunks)
    /\ p_running' = [p_running EXCEPT ![w] = p_task]
    /\ p_task' = p_task + 1
    /\ UNCHANGED << mode, pc, heapVars, bVars, nVars, sVars, extVars, p_all_args, p_sub, p_workers,
                    p_ready, p_finished, p_i, p_iv_arr, p_done, p_writes,
                    p_reports, p_greeks >>

\* a worker finishes its chunk, whenever it does: _solve_iv_chunk(chunk)
WorkerFinish(w) ==
    /\ mode = "pool" /\ pc = "collect"
    /\ p_running[w] # 0
    /\ p_ready' = [p_ready EXCEPT ![p_running[w]] = SolveIvChunk(p_chunks[p_running[w]])]
    /\ p_finished' = Append(p_finished, p_running[w])
    /\ p_running' = [p_running EXCEPT ![w] = 0]
    /\ UNCHANGED << mode, pc, heapVars, bVars, nVars, sVars, extVars, p_all_args, p_sub, p_workers,
                    p_task, p_i, p_iv_arr, p_done, p_writes, p_reports,
                    p_greeks >>

\* the finished chunks main has not taken, in the order they finished
Untaken(ready, finished) == SelectSeq(finished, LAMBDA m : ready[m] # Taken)

\* (mutant) imap_unordered: the next result is the one that finished first
YieldUnordered(i, ready, finished) ==
    IF Untaken(ready, finished) = << >> THEN i + 1
    ELSE Head(Untaken(ready, finished))

\* pool.imap: the i-th result (0-based) is the result of the i-th chunk
Yield(i, ready, finished) == i + 1

\* (mutant) start_idx = done + 1
StartIdxShifted(i, c) == i * c + 1

\* start_idx = i * SUB_CHUNK
StartIdx(i, c) == i * c

\* if (i + 1) % 10 == 0 or done == len(df): a progress line is printed.  The
\* period is ReportEvery chunks (10 in the source; the runs of the model have
\* fewer chunks than that)
Reports(i, done, n) == (i + 1) % ReportEvery = 0 \/ done = n

\* (mutant) the slice is stored back to front
StoreSliceReversed(iv_arr, start_idx, result) ==
    [k \in 1..Len(iv_arr) |->
        IF start_idx < k /\ k <= start_idx + Len(result)
        THEN result[Len(result) + 1 - (k - start_idx)] ELSE iv_arr[k]]

\* iv_arr[start_idx:end_idx] = result, for end_idx = start_idx + len(result)
StoreSlice(iv_arr, start_idx, result) ==
    [k \in 1..Len(iv_arr) |->
        IF start_idx < k /\ k <= start_idx + Len(result)
        THEN result[k - start_idx] ELSE iv_arr[k]]

\* (mutant) the loop is left after the first result
ExhaustedAfterFirst(i, nchunks) == i >= 1 \/ nchunks = 0

\* the iterator of pool.imap raises StopIteration after the last chunk
Exhausted(i, nchunks) == i = nchunks

\* one round of the for loop of main: the next result arrives and is stored
Collect ==
    /\ mode = "pool" /\ pc = "collect"
    /\ ~Exhausted(p_i, Len(p_chunks))
    /\ LET m == Yield(p_i, p_ready, p_finished)
           got == p_ready[m]
           result == got.results
           start_idx == StartIdx(p_i, p_sub)
           end_idx == start_idx + Len(result)
       IN  /\ got.raised \notin {"pending", "taken"}
           /\ p_ready' = [p_ready EXCEPT ![m] = Taken]
           /\ IF got.raised # "none" \/ end_idx > Len(p_iv_arr)
              THEN \* the worker's exception is raised again in main, or the
                   \* slice does not fit the result
                   /\ pc' = "raised"
                   /\ UNCHANGED << p_i, p_iv_arr, p_done, p_writes, p_reports >>
              ELSE /\ p_iv_arr' = StoreSlice(p_iv_arr, start_idx, result)
                   /\ p_writes' = [k \in 1..Len(p_writes) |->
                                     IF start_idx < k /\ k <= end_idx
                                     THEN Append(p_writes[k], m) ELSE p_writes[k]]
                   /\ p_done' = p_done + Len(result)
                   /\ p_reports' = IF Reports(p_i, p_done + Len(result), Len(p_all_args))
                                   THEN p_reports + 1 ELSE p_reports
                   /\ p_i' = p_i + 1
                   /\ pc' = pc
    /\ UNCHANGED << mode, heapVars, bVars, nVars, sVars, extVars, p_all_args, p_sub, p_workers,
                    p_task, p_running, p_finished, p_greeks >>

\* imap is exhausted: the loop and the with block end
LoopExit ==
    /\ mode = "pool" /\ pc = "collect"
    /\ Exhausted(p_i, Len(p_chunks))
    /\ pc' = "iv_done"
    /\ UNCHANGED << mode, heapVars, bVars, nVars, sVars, extVars, pVars >>

-----------------------------------------------------------------------------
(* The heap: numpy arrays and lists are buffers; a name refers to a buffer *)

\* (mutant) the new array is a view of the first argument's buffer
AllocIdAliased(h) == 1

\* np.full, np.ones, np.full_like, []: a buffer no other name refers to
AllocId(h) == Len(h) + 1

\* the contents of buffer id become arr
Store(h, id, arr) == IF id > Len(h) THEN Append(h, arr) ELSE [h EXCEPT ![id] = arr]

-----------------------------------------------------------------------------
(* SpecNewton: vectorized_iv(market_price, S, K, T, r, is_call) *)

NRows == 2
max_iter == 2

\* sigma = np.full(n, 0.3); the guard sigma > 10
SigmaSeed == 300
SigmaMax == 10000

FSub(a, b) == IF IsNaN(a) \/ IsNaN(b) THEN NaN ELSE a - b
FGt(a, b) == ~IsNaN(a) /\ ~IsNaN(b) /\ a > b

\* the rows of a call: valid geometry, T = 0, T < 0, market_price = 0
NRow(mp, S, K, T, c) == [market_price |-> mp, S |-> S, K |-> K, T |-> T, is_call |-> c]

NewtonRows ==
    { NRow(1, 1, 1, 1, TRUE), NRow(1, 1, 1, 0, TRUE),
      NRow(1, 1, 1, -1, TRUE), NRow(0, 1, 1, 1, FALSE) }

\* the five input arrays of a call, in the order of the parameters
NewtonInputs(rows) ==
    << [i \in 1..Len(rows) |-> rows[i].market_price],
       [i \in 1..Len(rows) |-> rows[i].S],
       [i \in 1..Len(rows) |-> rows[i].K],
       [i \in 1..Len(rows) |-> rows[i].T],
       [i \in 1..Len(rows) |-> rows[i].is_call] >>

\* what lines 47-64 compute for one active row: converged = |diff| < tol,
\* bad_vega = vega < 1e-12, and the Newton quotient diff / vega
Quotients == {-9700, 300}

NaNOutcome == [conv |-> FALSE, badv |-> FALSE, quot |-> NaN]

\* a row that was not in the active set of the iteration
NotEvaluated == [conv |-> FALSE, badv |-> FALSE, quot |-> 0]

Outcomes ==
    { [conv |-> TRUE, badv |-> b, quot |-> 0] : b \in BOOLEAN }
    \cup { [conv |-> FALSE, badv |-> TRUE, quot |-> 0] }
    \cup { [conv |-> FALSE, badv |-> FALSE, quot |-> q] : q \in Quotients }
    \cup { NaNOutcome }

\* np.sqrt(t) of a negative t and every operation on a NaN sigma give NaN:
\* the price, diff and vega are NaN and both comparisons are False
OutcomesFor(t, sig) == IF IsNaN(sig) \/ FLt0(t) THEN {NaNOutcome} ELSE Outcomes

n_T == heap[loc.T]
n_sigma == heap[loc.sigma]
n_result == heap[loc.result]
n_active == heap[loc.active]

\* (mutant) every row is taken, whatever the mask
AllIndices(active) == [j \in 1..Len(active) |-> j]

\* np.where(active)[0]: the indices of the active rows, ascending
ActiveIndices(active) ==
    LET F[k \in 0..Len(active)] ==
            IF k = 0 THEN << >>
            ELSE IF active[k] THEN Append(F[k - 1], k) ELSE F[k - 1]
    IN  F[Len(active)]

StillActive == "active"

\* (mutant) result starts as a copy of the seeds
ResultInitSeed(n) == [i \in 1..n |-> SigmaSeed]

\* result = np.full(n, np.nan)
ResultInit(n) == [i \in 1..n |-> NaN]

\* (mutant) the loop never looks at the mask
AnyActiveAlways(active) == TRUE

\* active.any()
AnyActive(active) == \E i \in 1..Len(active) : active[i]

\* lines 29-34 of a call with the rows given: n, sigma, result and active
NewtonStart(rows) ==
    LET n == Len(rows)
        h0 == NewtonInputs(rows)
        sig == AllocId(h0)
        h1 == Store(h0, sig, [i \in 1..n |-> SigmaSeed])
        res == AllocId(h1)
        h2 == Store(h1, res, ResultInit(n))
        act == AllocId(h2)
        h3 == Store(h2, act, [i \in 1..n |-> TRUE])
    IN  /\ in0 = h0
        /\ heap = h3
        /\ loc = [market_price |-> 1, S |-> 2, K |-> 3, T |-> 4, is_call |-> 5,
                  sigma |-> sig, result |-> res, active |-> act]
        /\ n_why = [i \in 1..n |-> StillActive]
        /\ n_out = [i \in 1..n |-> NotEvaluated]
        /\ n_sets = NoSets
        /\ n_iter = 0 /\ n_entered = {}

InitNewton ==
    /\ mode = "newton" /\ pc = "loop"
    /\ \E rows \in SeqsUpTo(NewtonRows, NRows) : NewtonStart(rows)
    /\ IdleBracket /\ IdlePool /\ IdleScalar /\ IdleRoundTrip /\ IdleOther

\* the position of row i in active_indices
Pos(ai, i) == CHOOSE j \in 1..Len(ai) : ai[j] = i

\* what lines 47-64 can compute for the active rows ai, one outcome per
\* position of the restricted arrays s, mp, s_price, k, t, call
RECURSIVE OutcomeSeqs(_, _, _)
OutcomeSeqs(T, sigma, ai) ==
    IF ai = << >> THEN { << >> }
    ELSE { << x >> \o rest : x \in OutcomesFor(T[Head(ai)], sigma[Head(ai)]),
                             rest \in OutcomeSeqs(T, sigma, Tail(ai)) }

\* (mutant) converged rows are taken only where the vega is not small
ConvergedIdxGoodVega(ai, o) ==
    { ai[j] : j \in {x \in DOMAIN o : o[x].conv /\ ~o[x].badv} }

\* converged_idx = active_indices[converged]
ConvergedIdx(ai, o) == { ai[j] : j \in {x \in DOMAIN o : o[x].conv} }

\* (mutant) no row is given up for its vega
FailedIdxNone(ai, o) == {}

\* (mutant) every row with a small vega is given up, converged or not
FailedIdxAnyBadVega(ai, o) == { ai[j] : j \in {x \in DOMAIN o : o[x].badv} }

\* failed_idx = active_indices[bad_vega & ~converged]
FailedIdx(ai, o) == { ai[j] : j \in {x \in DOMAIN o : o[x].badv /\ ~o[x].conv} }

\* update_idx = active_indices[~converged & ~bad_vega]
UpdateIdx(ai, o) == { ai[j] : j \in {x \in DOMAIN o : ~o[x].conv /\ ~o[x].badv} }

\* (mutant) the lower guard written with < for <=
BadSigmaStrict(x) == FLt0(x) \/ FGt(x, SigmaMax)

\* (mutant) the lower guard left out
BadSigmaUpperOnly(x) == FGt(x, SigmaMax)

\* bad_sigma = (sigma[update_idx] <= 0) | (sigma[update_idx] > 10)
BadSigma(x) == FLe0(x) \/ FGt(x, SigmaMax)

\* (mutant) the guard looks at sigma as it was before the update of line 80
BadSigmaIdxBeforeUpdate(update_idx, sigma) ==
    { i \in update_idx : BadSigma(n_sigma[i]) }

\* bad_sigma_idx = update_idx[bad_sigma], on sigma as line 80 left it
BadSigmaIdx(update_idx, sigma) == { i \in update_idx : BadSigma(sigma[i]) }

\* lines 66-90 of one iteration, given what lines 47-64 computed (o, one
\* outcome per position of active_indices)
IterateWith(o) ==
    LET sigma == n_sigma
        result == n_result
        active == n_active
        ai == ActiveIndices(n_active)
        n == Len(n_sigma)
    IN LET
        converged_idx == ConvergedIdx(ai, o)
        failed_idx == FailedIdx(ai, o)
        update_idx == UpdateIdx(ai, o)
    IN LET
        \* result[converged_idx] = sigma[converged_idx]
        result1 == [i \in 1..n |->
                      IF i \in converged_idx THEN sigma[i] ELSE result[i]]
        \* sigma[update_idx] -= diff[still_going] / vega[still_going]
        sigma1 == [i \in 1..n |->
                      IF i \in update_idx
                      THEN FSub(sigma[i], o[Pos(ai, i)].quot)
                      ELSE sigma[i]]
    IN LET
        bad_sigma_idx == BadSigmaIdx(update_idx, sigma1)
    IN LET
        \* sigma[bad_sigma_idx] = np.nan
        sigma2 == [i \in 1..n |-> IF i \in bad_sigma_idx THEN NaN ELSE sigma1[i]]
        \* active[converged_idx], [failed_idx], [bad_sigma_idx] = False
        active1 == [i \in 1..n |->
                      /\ active[i]
                      /\ i \notin converged_idx
                      /\ i \notin failed_idx
                      /\ i \notin bad_sigma_idx]
    IN  /\ heap' = Store(Store(Store(heap, loc.result, result1),
                               loc.sigma, sigma2), loc.active, active1)
        /\ n_entered' = n_entered \cup { ai[j] : j \in 1..Len(ai) }
        /\ n_why' = [i \in 1..n |->
                       IF n_why[i] # StillActive THEN n_why[i]
                       ELSE IF i \in converged_idx THEN "converged"
                       ELSE IF i \in failed_idx THEN "bad_vega"
                       ELSE IF i \in bad_sigma_idx THEN "bad_sigma"
                       ELSE n_why[i]]
        /\ n_out' = [i \in 1..n |->
                       IF \E j \in 1..Len(ai) : ai[j] = i /\ j <= Len(o)
                       THEN o[Pos(ai, i)] ELSE NotEvaluated]
        /\ n_sets' = [converged |-> converged_idx, failed |-> failed_idx,
                       bad_sigma |-> bad_sigma_idx]
        /\ n_iter' = n_iter + 1
        /\ UNCHANGED << mode, pc, loc, in0, bVars, pVars, sVars, extVars >>

\* one iteration of the for loop (lines 36-90)
Iterate ==
    /\ mode = "newton" /\ pc = "loop"
    /\ n_iter < max_iter
    /\ AnyActive(n_active)
    /\ \E o \in OutcomeSeqs(n_T, n_sigma, ActiveIndices(n_active)) : IterateWith(o)

\* the loop ends (the budget is used up, or no row is active): return result
ReturnResult ==
    /\ mode = "newton" /\ pc = "loop"
    /\ n_iter = max_iter \/ ~AnyActive(n_active)
    /\ pc' = "returned"
    /\ UNCHANGED << mode, heapVars, bVars, pVars, nVars, sVars, extVars >>

NextNewton == Iterate \/ ReturnResult

SpecNewton == InitNewton /\ [][NextNewton]_vars

\* Termination is checked on calls whose rows have T > 0 or T < 0: these are
\* the two kinds of row lines 47-64 tell apart (OutcomesFor).
TerminationRows == { r \in NewtonRows : r.market_price = 1 /\ r.T # 0 }

InitNewtonFair ==
    /\ mode = "newton" /\ pc = "loop"
    /\ \E rows \in SeqsUpTo(TerminationRows, NRows) : NewtonStart(rows)
    /\ IdleBracket /\ IdlePool /\ IdleScalar /\ IdleRoundTrip /\ IdleOther

\* the interpreter runs the call on: a step that can be taken is taken
SpecNewtonFair ==
    InitNewtonFair /\ [][NextNewton]_vars /\ WF_vars(NextNewton)

-----------------------------------------------------------------------------
(* SpecRoundTrip: a price computed at a known volatility, then solved *)

\* the strikes of the round trip for S = 1: at the money and far out of the
\* money (S / K = 0.01)
AtTheMoney == 1
FarStrike == 100

\* far out of the money d1 and d2 are so negative below this volatility that
\* norm.cdf gives 0.0 for both: the call price is exactly 0.0
FlatBelow == 2300

\* _bs_price of a call with S = 1, T > 0 at sigma (thousandths), in price
\* units of the model: increasing in sigma, and 0.0 where norm.cdf underflows
BsPrice(K, sigma) ==
    IF K = AtTheMoney THEN sigma
    ELSE IF sigma < FlatBelow THEN 0 ELSE sigma - FlatBelow + 1

\* vega = s_price * norm.pdf(d1) * sqrt_t: the slope of the price, in the same
\* units; 0.0 where norm.pdf underflows
BsVega(K, sigma) == IF K = AtTheMoney \/ sigma >= FlatBelow THEN 1 ELSE 0

Sgn(x) == IF x > 0 THEN 1 ELSE IF x < 0 THEN -1 ELSE 0

\* brentq on sig |-> _bs_price(..., sig, ...) - mkt_price over the bracket: a
\* zero of the difference (it is only called when the signs at the bounds
\* differ or a bound is a zero)
BrentqOn(K, mkt) ==
    IF \E x \in IV_LOWER..IV_UPPER : BsPrice(K, x) = mkt
    THEN [kind |-> "root", exc |-> "none",
          val |-> CHOOSE x \in IV_LOWER..IV_UPPER : BsPrice(K, x) = mkt]
    ELSE [kind |-> "raise", val |-> NaN, exc |-> "ValueError"]

\* the volatilities of (0, 5) the prices are computed at
RtSigmas == {1, 146, 300, 2299, 2300, 4999}

RtContracts == { << K, sigma0 >> : K \in {AtTheMoney, FarStrike}, sigma0 \in RtSigmas }

\* the argument tuple of _solve_iv for the price of contract c, with what
\* lines 54, 55 and 58-59 compute from it
RtArgs(c) ==
    LET mkt == BsPrice(c[1], c[2])
    IN  [ S |-> 1, K |-> c[1], T |-> 1, mkt_price |-> mkt, is_call |-> TRUE,
          f_lo |-> Sgn(BsPrice(c[1], IV_LOWER) - mkt),
          f_hi |-> Sgn(BsPrice(c[1], IV_UPPER) - mkt),
          brentq |-> BrentqOn(c[1], mkt) ]

InitRoundTripBracket ==
    /\ mode = "bracket" /\ pc = "call"
    /\ \E c \in RtContracts : b_args = RtArgs(c) /\ rt_sigma = << c[2] >>
    /\ b_out = NoOut
    /\ IdleHeap /\ IdlePool /\ IdleNewton /\ IdleScalar /\ IdleOther

InitRoundTripNewton ==
    /\ mode = "newton" /\ pc = "loop"
    /\ \E cs \in SeqsUpTo(RtContracts, NRows) :
          /\ NewtonStart([i \in 1..Len(cs) |->
                            NRow(BsPrice(cs[i][1], cs[i][2]), 1, cs[i][1], 1, TRUE)])
          /\ rt_sigma = [i \in 1..Len(cs) |-> cs[i][2]]
    /\ IdleBracket /\ IdlePool /\ IdleScalar /\ IdleOther

\* lines 47-64 for one active row: diff = bs_price - mp, converged =
\* |diff| < tol, bad_vega = vega < 1e-12, and diff / vega
PricedOutcome(K, sigma, mp) ==
    IF IsNaN(sigma) THEN NaNOutcome
    ELSE LET diff == BsPrice(K, sigma) - mp
             vega == BsVega(K, sigma)
         IN  [ conv |-> diff = 0, badv |-> vega = 0,
               quot |-> IF diff = 0 \/ vega = 0 THEN 0 ELSE diff \div vega ]

PricedOutcomes(ai) ==
    [j \in 1..Len(ai) |->
        PricedOutcome(heap[loc.K][ai[j]], n_sigma[ai[j]], heap[loc.market_price][ai[j]])]

\* one iteration of the for loop on priced rows
RoundTripIterate ==
    /\ mode = "newton" /\ pc = "loop"
    /\ n_iter < max_iter
    /\ AnyActive(n_active)
    /\ IterateWith(PricedOutcomes(ActiveIndices(n_active)))

InitRoundTrip == InitRoundTripBracket \/ InitRoundTripNewton
NextRoundTrip == SolveIvCall \/ RoundTripIterate \/ ReturnResult
SpecRoundTrip == InitRoundTrip /\ [][NextRoundTrip]_vars

-----------------------------------------------------------------------------
(* SpecScalar: implied_volatility(market_price, S, K, T, r) of VI.py *)

InitScalar ==
    /\ mode = "scalar" /\ pc = "loop"
    /\ \E row \in NewtonRows : in0 = << row >>
    /\ heap = << >> /\ loc = << >>
    /\ s_sigma = SigmaSeed /\ s_iter = 0 /\ s_ret = NaN
    /\ IdleBracket /\ IdlePool /\ IdleNewton /\ IdleRoundTrip /\ IdleOther

\* one iteration (lines 9-25): return sigma when |diff| < tol, else take the
\* Newton step.  There is no test of vega: a vega below 1e-12 gives a
\* quotient that is infinite or NaN, and no later price is a number.
ScalarIterate ==
    /\ mode = "scalar" /\ pc = "loop"
    /\ s_iter < max_iter
    /\ \E o \in OutcomesFor(in0[1].T, s_sigma) :
          IF o.conv
          THEN /\ s_ret' = s_sigma
               /\ pc' = "returned"
               /\ s_sigma' = s_sigma
          ELSE /\ s_sigma' = IF o.badv THEN NaN ELSE FSub(s_sigma, o.quot)
               /\ UNCHANGED << s_ret, pc >>
    /\ s_iter' = s_iter + 1
    /\ UNCHANGED << mode, heapVars, bVars, pVars, nVars, extVars >>

\* the loop is exhausted (line 27): raise ValueError("IV did not converge")
ScalarRaise ==
    /\ mode = "scalar" /\ pc = "loop"
    /\ s_iter = max_iter
    /\ pc' = "raised"
    /\ UNCHANGED << mode, heapVars, bVars, pVars, nVars, sVars, extVars >>

NextScalar == ScalarIterate \/ ScalarRaise

SpecScalar == InitScalar /\ [][NextScalar]_vars

\* both Newton solvers
InitNewtonSolvers == InitNewton \/ InitScalar
NextNewtonSolvers == Iterate \/ ReturnResult \/ ScalarIterate \/ ScalarRaise
SpecNewtonSolvers == InitNewtonSolvers /\ [][NextNewtonSolvers]_vars

-----------------------------------------------------------------------------
(* SpecGreeks: compute_greeks_vectorized(S, K, T, r, q, sigma, is_call) *)

GRows == 2

GRow(S, K, T, sig, c) == [S |-> S, K |-> K, T |-> T, sigma |-> sig, is_call |-> c]

\* the rows of a call: S and K positive or one of them zero, T positive or
\* zero, sigma a solved volatility, zero, negative or the sentinel
GreekRows ==
    { GRow(sk[1], sk[2], T, sig, c) :
        sk \in { <<1, 1>>, <<0, 1>>, <<1, 0>> }, T \in {0, 1},
        sig \in {NaN, 0, -146, 146}, c \in BOOLEAN }

\* the five input arrays of a call, in the order of the parameters
GreekInputs(rows) ==
    << [i \in 1..Len(rows) |-> rows[i].S],
       [i \in 1..Len(rows) |-> rows[i].K],
       [i \in 1..Len(rows) |-> rows[i].T],
       [i \in 1..Len(rows) |-> rows[i].sigma],
       [i \in 1..Len(rows) |-> rows[i].is_call] >>

InitGreeks ==
    /\ mode = "greeks" /\ pc = "call"
    /\ \E rows \in SeqsUpTo(GreekRows, GRows) :
          /\ in0 = GreekInputs(rows)
          /\ heap = GreekInputs(rows)
    /\ loc = [S |-> 1, K |-> 2, T |-> 3, sigma |-> 4, is_call |-> 5,
              delta |-> 0, gamma |-> 0, vega |-> 0, theta |-> 0, rho |-> 0]
    /\ IdleBracket /\ IdlePool /\ IdleNewton /\ IdleScalar /\ IdleRoundTrip /\ IdleOther

\* (mutant) the mask without T > 0
ValidMaskNoT(S, K, T, sigma) ==
    [i \in 1..Len(sigma) |->
        IsFinite(sigma[i]) /\ FGt0(S[i]) /\ FGt0(K[i]) /\ FGt0(sigma[i])]

\* valid = np.isfinite(sigma) & (T > 0) & (S > 0) & (K > 0) & (sigma > 0)
ValidMask(S, K, T, sigma) ==
    [i \in 1..Len(sigma) |->
        IsFinite(sigma[i]) /\ FGt0(T[i]) /\ FGt0(S[i]) /\ FGt0(K[i]) /\ FGt0(sigma[i])]

\* lines 88-111 on the rows of the mask.  The closed forms give numbers there;
\* a number is kept by its sign: gamma and vega positive, theta negative,
\* delta and rho positive for a call and negative for a put
GammaV(is_call_v) == [j \in 1..Len(is_call_v) |-> 1]
VegaV(is_call_v) == [j \in 1..Len(is_call_v) |-> 1]
ThetaV(is_call_v) == [j \in 1..Len(is_call_v) |-> -1]
DeltaV(is_call_v) == [j \in 1..Len(is_call_v) |-> IF is_call_v[j] THEN 1 ELSE -1]
RhoV(is_call_v) == [j \in 1..Len(is_call_v) |-> IF is_call_v[j] THEN 1 ELSE -1]

\* a[valid]: the entries of a at the indices vi, as a new array
Take(a, vi) == [j \in 1..Len(vi) |-> a[vi[j]]]

\* a[valid] = v: the j-th value goes to the j-th index of the mask
Put(a, vi, v) == [i \in 1..Len(a) |->
                     IF \E j \in 1..Len(vi) : vi[j] = i THEN v[Pos(vi, i)] ELSE a[i]]

\* the whole call (lines 74-113)
ComputeGreeks ==
    /\ mode = "greeks" /\ pc = "call"
    /\ LET S == heap[loc.S]
           K == heap[loc.K]
           T == heap[loc.T]
           sigma == heap[loc.sigma]
           is_call == heap[loc.is_call]
           n == Len(sigma)
           nans == [i \in 1..n |-> NaN]
           valid == ValidMask(S, K, T, sigma)
           vi == ActiveIndices(valid)
           is_call_v == Take(is_call, vi)
           \* delta, gamma, vega, theta, rho = np.full_like(sigma, np.nan)
           delta == AllocId(heap)
           h1 == Store(heap, delta, nans)
           gamma == AllocId(h1)
           h2 == Store(h1, gamma, nans)
           vega == AllocId(h2)
           h3 == Store(h2, vega, nans)
           theta == AllocId(h3)
           h4 == Store(h3, theta, nans)
           rho == AllocId(h4)
           h5 == Store(h4, rho, nans)
           \* gamma[valid] = ..., vega[valid] = ..., delta[valid] = ...,
           \* theta[valid] = ..., rho[valid] = ...
           h6 == Store(h5, gamma, Put(h5[gamma], vi, GammaV(is_call_v)))
           h7 == Store(h6, vega, Put(h6[vega], vi, VegaV(is_call_v)))
           h8 == Store(h7, delta, Put(h7[delta], vi, DeltaV(is_call_v)))
           h9 == Store(h8, theta, Put(h8[theta], vi, ThetaV(is_call_v)))
           h10 == Store(h9, rho, Put(h9[rho], vi, RhoV(is_call_v)))
       IN  /\ heap' = IF vi = << >> THEN h5 ELSE h10
           /\ loc' = [loc EXCEPT !.delta = delta, !.gamma = gamma, !.vega = vega,
                                 !.theta = theta, !.rho = rho]
    /\ pc' = "returned"
    /\ UNCHANGED << mode, in0, bVars, pVars, nVars, sVars, extVars >>

NextGreeks == ComputeGreeks

SpecGreeks == InitGreeks /\ [][NextGreeks]_vars

-----------------------------------------------------------------------------
(* main after the pool: the Greeks of the IV array (line 185) *)

\* column f of the argument tuples: the array main zipped into all_args
Column(all_args, f) == [k \in 1..Len(all_args) |-> all_args[k][f]]

\* what compute_greeks_vectorized returns for arrays of one length
GreekArrays(S, K, T, sigma, is_call) ==
    LET valid == ValidMask(S, K, T, sigma)
        vi == ActiveIndices(valid)
        is_call_v == Take(is_call, vi)
        nans == [i \in 1..Len(sigma) |-> NaN]
    IN  [ sigma |-> sigma, valid |-> valid,
          delta |-> Put(nans, vi, DeltaV(is_call_v)),
          gamma |-> Put(nans, vi, GammaV(is_call_v)),
          vega |-> Put(nans, vi, VegaV(is_call_v)),
          theta |-> Put(nans, vi, ThetaV(is_call_v)),
          rho |-> Put(nans, vi, RhoV(is_call_v)) ]

\* df["IV"] = iv_arr, then compute_greeks_vectorized(S, K, T_arr, r, q, iv_arr,
\* is_call) on iv_arr as it is when the with block has ended
MainGreeks ==
    /\ mode = "pool" /\ pc = "iv_done"
    /\ p_greeks' = GreekArrays(Column(p_all_args, "S"), Column(p_all_args, "K"),
                               Column(p_all_args, "T"), p_iv_arr,
                               Column(p_all_args, "is_call"))
    /\ pc' = "greeks_done"
    /\ UNCHANGED << mode, heapVars, bVars, nVars, sVars, extVars, p_all_args, p_sub,
                    p_workers, p_task, p_running, p_ready, p_finished, p_i,
                    p_iv_arr, p_done, p_writes, p_reports >>

NextPool ==
    \/ \E w \in 1..MaxWorkers : w <= p_workers /\ WorkerTake(w)
    \/ \E w \in 1..MaxWorkers : w <= p_workers /\ WorkerFinish(w)
    \/ Collect
    \/ LoopExit
    \/ MainGreeks

SpecPool == InitPool /\ [][NextPool]_vars

-----------------------------------------------------------------------------
(* SpecShapes: the array functions on arrays of any lengths *)

MaxLen == 2

\* the five arrays of a call, each of its own length; the volatilities are
\* all solved or all the sentinel
ShapeInputs ==
    { << [i \in 1..a |-> 1], [i \in 1..b |-> 1], [i \in 1..c |-> 1],
         [i \in 1..e |-> v], [i \in 1..f |-> TRUE] >> :
        a \in 0..MaxLen, b \in 0..MaxLen, c \in 0..MaxLen, e \in 0..MaxLen,
        f \in 0..MaxLen, v \in {NaN, 146} }

\* to call: vectorized_iv (market_price, S, K, T, is_call),
\* compute_greeks_vectorized (S, K, T, sigma, is_call), or
\* zip(S, K, T_arr, mkt_price, is_call) of main
ShapeModes == {"shape_newton", "shape_greeks", "shape_zip"}

InitShapes ==
    /\ mode \in ShapeModes /\ pc = "call"
    /\ in0 \in ShapeInputs /\ heap = in0
    /\ loc = [out |-> 0]
    /\ IdleBracket /\ IdlePool /\ IdleNewton /\ IdleScalar /\ IdleRoundTrip
    /\ IdleOther

\* numpy broadcasting of two one-dimensional shapes
BroadcastOk(a, b) == a = b \/ a = 1 \/ b = 1
BroadcastLen(a, b) == IF a = 1 THEN b ELSE a

\* x & y on boolean arrays: ok is FALSE when the shapes do not broadcast
\* (ValueError)
MaskAnd(x, y) ==
    IF ~x.ok \/ ~y.ok \/ ~BroadcastOk(Len(x.val), Len(y.val))
    THEN [ok |-> FALSE, val |-> << >>]
    ELSE [ok |-> TRUE,
          val |-> [i \in 1..BroadcastLen(Len(x.val), Len(y.val)) |->
                     /\ x.val[IF Len(x.val) = 1 THEN 1 ELSE i]
                     /\ y.val[IF Len(y.val) = 1 THEN 1 ELSE i]]]

\* np.isfinite(arr) and arr > 0, elementwise
FiniteMask(arr) == [ok |-> TRUE, val |-> [i \in 1..Len(arr) |-> IsFinite(arr[i])]]
PositiveMask(arr) == [ok |-> TRUE, val |-> [i \in 1..Len(arr) |-> FGt0(arr[i])]]

\* arr[mask] for a boolean mask: IndexError unless the lengths are the same
BoolIndexOk(arr, mask) == Len(arr) = Len(mask)

\* vectorized_iv, lines 29-45.  With n = 0 the loop breaks at once and the
\* empty result is returned; otherwise the first iteration indexes the other
\* four arrays with the mask of length n
ShapesNewton ==
    /\ mode = "shape_newton" /\ pc = "call"
    /\ LET n == Len(heap[1])
           active == [i \in 1..n |-> TRUE]
           out == AllocId(heap)
       IN  IF n = 0
           THEN /\ heap' = Store(heap, out, << >>)
                /\ loc' = [out |-> out]
                /\ pc' = "returned"
           ELSE IF \E id \in 2..5 : ~BoolIndexOk(heap[id], active)
           THEN /\ pc' = "raised"
                /\ UNCHANGED << heap, loc >>
           ELSE /\ heap' = Store(heap, out, [i \in 1..n |-> NaN])
                /\ loc' = [out |-> out]
                /\ pc' = "solving"
    /\ UNCHANGED << mode, in0, bVars, pVars, nVars, sVars, extVars >>

\* compute_greeks_vectorized, lines 75-86: the mask, the five arrays like
\* sigma, the early return, and the masked reads
ShapesGreeks ==
    /\ mode = "shape_greeks" /\ pc = "call"
    /\ LET S == heap[1]
           K == heap[2]
           T == heap[3]
           sigma == heap[4]
           is_call == heap[5]
           valid == MaskAnd(MaskAnd(MaskAnd(MaskAnd(FiniteMask(sigma),
                        PositiveMask(T)), PositiveMask(S)), PositiveMask(K)),
                        PositiveMask(sigma))
           out == AllocId(heap)
       IN  IF ~valid.ok
           THEN /\ pc' = "raised"
                /\ UNCHANGED << heap, loc >>
           ELSE IF ~\E i \in 1..Len(valid.val) : valid.val[i]
           THEN \* return delta, gamma, vega, theta, rho: each like sigma
                /\ heap' = Store(heap, out, [i \in 1..Len(sigma) |-> NaN])
                /\ loc' = [out |-> out]
                /\ pc' = "returned"
           ELSE IF \E id \in 1..5 : ~BoolIndexOk(heap[id], valid.val)
           THEN /\ pc' = "raised"
                /\ UNCHANGED << heap, loc >>
           ELSE /\ heap' = Store(heap, out, [i \in 1..Len(sigma) |->
                                              IF valid.val[i] THEN 1 ELSE NaN])
                /\ loc' = [out |-> out]
                /\ pc' = "returned"
    /\ UNCHANGED << mode, in0, bVars, pVars, nVars, sVars, extVars >>

\* len(list(zip(a, b, ...))): zip stops at the end of the shortest argument
ZipLen(arrays) ==
    CHOOSE n \in 0..MaxLen :
        /\ \A id \in 1..Len(arrays) : n <= Len(arrays[id])
        /\ \E id \in 1..Len(arrays) : n = Len(arrays[id])

\* main, line 146: all_args = list(zip(S, K, T_arr, ..., mkt_price, is_call))
ShapesZip ==
    /\ mode = "shape_zip" /\ pc = "call"
    /\ LET out == AllocId(heap)
       IN  /\ heap' = Store(heap, out,
                 [k \in 1..ZipLen(heap) |->
                     << heap[1][k], heap[2][k], heap[3][k], heap[4][k], heap[5][k] >>])
           /\ loc' = [out |-> out]
    /\ pc' = "returned"
    /\ UNCHANGED << mode, in0, bVars, pVars, nVars, sVars, extVars >>

NextShapes == ShapesNewton \/ ShapesGreeks \/ ShapesZip
SpecShapes == InitShapes /\ [][NextShapes]_vars

-----------------------------------------------------------------------------
(* SpecImport: the module-level assignment of N_WORKERS *)

MaxCpu == 64

\* os.cpu_count() is the number of logical CPUs, or None when it cannot be
\* determined
InitImport ==
    /\ mode = "import" /\ pc = "line33"
    /\ cpu_count \in {None} \cup 1..MaxCpu
    /\ N_WORKERS = 0
    /\ IdleHeap /\ IdleBracket /\ IdlePool /\ IdleNewton /\ IdleScalar
    /\ IdleRoundTrip /\ IdleBacktest /\ IdleUtil

Max(a, b) == IF a >= b THEN a ELSE b

\* N_WORKERS = max(1, os.cpu_count() - 1): None - 1 raises TypeError
ModuleImport ==
    /\ mode = "import" /\ pc = "line33"
    /\ IF cpu_count = None
       THEN pc' = "raised" /\ UNCHANGED N_WORKERS
       ELSE pc' = "assigned" /\ N_WORKERS' = Max(1, cpu_count - 1)
    /\ UNCHANGED << mode, heapVars, bVars, pVars, nVars, sVars, rt_sigma, cpu_count,
                    btVars, utilVars >>

NextImport == ModuleImport
SpecImport == InitImport /\ [][NextImport]_vars

-----------------------------------------------------------------------------
(* SpecBacktest: the trade loop of run_iv_rank_backtest                      *)
(* src/backtesting/iv_rank_strategy.py                                       *)

IV_RANK_ENTRY == 20
IV_RANK_EXIT == 50
MAX_HOLDING_DAYS == 15

\* TradDt is a calendar day, counted from a Monday (day 1); the exchange
\* trades Monday to Friday and the data has rows for trading days only
MaxDay == 17
IsTradingDay(d) == d % 7 \notin {6, 0}

Symbols == {"NIFTY", "BANKNIFTY"}

\* IVRank of a row: below the entry level, at it, at the exit level, above it
IVRanks == {10, 20, 50, 60}

\* symbol in open_positions, and open_positions[symbol]
HasPosition(open, symbol) == \E e \in open : e.TckrSymb = symbol
PositionOf(open, symbol) == CHOOSE e \in open : e.TckrSymb = symbol

\* del open_positions[symbol]
DictDel(open, symbol) == { e \in open : e.TckrSymb # symbol }

\* open_positions[symbol] = row.to_dict()
DictSet(open, symbol, row) == DictDel(open, symbol) \cup {row}

\* should_exit = (iv_rank > IV_RANK_EXIT) or (days_held >= MAX_HOLDING_DAYS)
ShouldExit(iv_rank, days_held) ==
    iv_rank > IV_RANK_EXIT \/ days_held >= MAX_HOLDING_DAYS

\* (mutant) the entry test without "symbol not in open_positions"
CanEnterWhileOpen(open, symbol, iv_rank) == iv_rank < IV_RANK_ENTRY

\* symbol not in open_positions and iv_rank < IV_RANK_ENTRY
CanEnter(open, symbol, iv_rank) ==
    ~HasPosition(open, symbol) /\ iv_rank < IV_RANK_ENTRY

InitBacktest ==
    /\ mode = "backtest" /\ pc = "rows"
    /\ IdleBacktest
    /\ IdleHeap /\ IdleBracket /\ IdlePool /\ IdleNewton /\ IdleScalar
    /\ IdleRoundTrip /\ IdleImport /\ IdleUtil

\* one round of the loop over straddles.iterrows() (lines 109-162).  The rows
\* come sorted by TradDt, one row per symbol and date.
ProcessRow ==
    /\ mode = "backtest" /\ pc = "rows"
    /\ \E symbol \in Symbols, trade_dt \in 1..MaxDay, iv_rank \in IVRanks,
          StraddleCost \in {0, 1} :
          /\ IsTradingDay(trade_dt)
          /\ trade_dt >= bt_row.TradDt
          /\ trade_dt = bt_row.TradDt => symbol \notin bt_seen
          /\ LET row == [TckrSymb |-> symbol, TradDt |-> trade_dt, IVRank |-> iv_rank]
                 held == HasPosition(open_positions, symbol)
                 entry == PositionOf(open_positions, symbol)
                 \* days_held = (trade_dt - entry["TradDt"]).days
                 days_held == trade_dt - entry.TradDt
                 exits == held /\ ShouldExit(iv_rank, days_held)
                 open1 == IF exits THEN DictDel(open_positions, symbol)
                          ELSE open_positions
             IN  /\ bt_trade' =
                       IF exits
                       THEN [ EntryDate |-> entry.TradDt, DaysHeld |-> days_held,
                              ExitReason |-> IF iv_rank > IV_RANK_EXIT
                                             THEN "IV_Expansion" ELSE "MaxDays" ]
                       ELSE NoTrade
                 /\ open_positions' =
                       IF CanEnter(open1, symbol, iv_rank) /\ StraddleCost > 0
                       THEN DictSet(open1, symbol, row) ELSE open1
                 /\ bt_row' = row
                 /\ bt_seen' = IF trade_dt = bt_row.TradDt
                               THEN bt_seen \cup {symbol} ELSE {symbol}
    /\ UNCHANGED << mode, pc, heapVars, bVars, pVars, nVars, sVars, rt_sigma,
                    cpu_count, N_WORKERS, utilVars >>

\* the rows are exhausted: the loop ends with the positions that are open
EndOfRows ==
    /\ mode = "backtest" /\ pc = "rows"
    /\ pc' = "done"
    /\ UNCHANGED << mode, heapVars, bVars, pVars, nVars, sVars, extVars >>

NextBacktest == ProcessRow \/ EndOfRows
SpecBacktest == InitBacktest /\ [][NextBacktest]_vars

-----------------------------------------------------------------------------
(* _solve_iv_chunk(chunk_args) over the heap, and SpecFrame *)

InitChunk ==
    /\ mode = "chunk" /\ pc = "call"
    /\ \E chunk_args \in SeqsUpTo(PoolRows, MaxChunk) :
          /\ in0 = << chunk_args >>
          /\ heap = << chunk_args >>
    /\ loc = [chunk_args |-> 1, results |-> 0]
    /\ IdleBracket /\ IdlePool /\ IdleNewton /\ IdleScalar /\ IdleRoundTrip /\ IdleOther

\* the whole call (lines 64-69): results = [], then one append per row
ChunkCall ==
    /\ mode = "chunk" /\ pc = "call"
    /\ LET results == AllocId(heap)
           h1 == Store(heap, results, << >>)
           out == SolveIvChunk(h1[loc.chunk_args])
       IN  /\ heap' = Store(h1, results, h1[results] \o out.results)
           /\ loc' = [loc EXCEPT !.results = results]
           /\ pc' = IF out.raised = "none" THEN "returned" ELSE "raised"
    /\ UNCHANGED << mode, in0, bVars, pVars, nVars, sVars, extVars >>

InitFrame == InitNewton \/ InitGreeks \/ InitChunk
NextFrame == Iterate \/ ReturnResult \/ ComputeGreeks \/ ChunkCall
SpecFrame == InitFrame /\ [][NextFrame]_vars

-----------------------------------------------------------------------------
(* SpecMetrics: calc_metrics(pnl_series), called directly or by a strategy
   whose metrics reach the combined summary of run_backtest.main.
   P&L in whole currency units. *)

MaxTrades == 3

\* P&L of a trade: not a number (a missing closing price), a loss, a trade
\* that broke even, a gain
PnlValues == {NaN, -5000, 0, 2000}

\* def calc_metrics(pnl_series, capital=100000)
capital == 100000

\* inf, and a quotient by 1e-8: larger than every other value of the model
Inf == 99999

\* pnl = pnl[np.isfinite(pnl)]
FiniteOnly(pnl_series) == SelectSeq(pnl_series, IsFinite)

\* np.sum
RECURSIVE SeqSum(_)
SeqSum(a) == IF a = << >> THEN 0 ELSE Head(a) + SeqSum(Tail(a))

\* equity = np.cumsum(pnl) + capital, peak = np.maximum.accumulate(equity),
\* max_dd = np.max((peak - equity) / peak) * 100, in hundredths of a percent
MaxDrawdownPct(pnl) ==
    LET equity == [k \in 1..Len(pnl) |-> SeqSum(SubSeq(pnl, 1, k)) + capital]
        peak == [k \in 1..Len(pnl) |->
                    CHOOSE m \in {equity[j] : j \in 1..k} :
                       \A j \in 1..k : equity[j] <= m]
        drawdown == {((peak[k] - equity[k]) * 10000) \div peak[k] : k \in 1..Len(pnl)}
    IN  CHOOSE m \in drawdown : \A x \in drawdown : x <= m

\* gross_profit / gross_loss, in hundredths; gross_loss is 1e-8 when there is
\* no losing trade, and 0.0 when every losing trade lost nothing (numpy
\* divides by zero to inf or nan)
ProfitFactor(pnl) ==
    LET wins == SelectSeq(pnl, FGt0)
        losses == SelectSeq(pnl, FLe0)
        gross_profit == SeqSum(wins)
        gross_loss == IF SeqSum(losses) < 0 THEN 0 - SeqSum(losses) ELSE 0
    IN  IF gross_loss > 0 THEN (gross_profit * 100) \div gross_loss
        ELSE IF Len(losses) = 0 THEN Inf
        ELSE IF gross_profit > 0 THEN Inf ELSE NaN

\* the dict returned when no finite P&L is left (lines 107-116)
EmptyMetrics ==
    [ total_trades |-> 0, total_pnl |-> 0, avg_pnl |-> 0, win_rate |-> 0,
      max_drawdown |-> 0, sharpe |-> 0, profit_factor |-> 0 ]

\* calc_metrics.  avg_pnl in whole units and win_rate in tenths of a percent,
\* both rounded down; sharpe by its sign (zero when np.std(pnl) is zero, that
\* is when all the values are equal).
calc_metrics(pnl_series) ==
    LET pnl == FiniteOnly(pnl_series)
    IN  IF Len(pnl) = 0 THEN EmptyMetrics
        ELSE [ total_trades |-> Len(pnl),
               total_pnl |-> SeqSum(pnl),
               avg_pnl |-> SeqSum(pnl) \div Len(pnl),
               win_rate |-> (Len(SelectSeq(pnl, FGt0)) * 1000) \div Len(pnl),
               max_drawdown_pct |-> MaxDrawdownPct(pnl),
               sharpe |-> IF \A j \in 1..Len(pnl) : pnl[j] = pnl[1]
                          THEN 0 ELSE Sgn(SeqSum(pnl)),
               profit_factor |-> ProfitFactor(pnl) ]

\* a strategy that returned None, None
NoneMetrics == [none |-> TRUE]

\* the keys the summary line of run_backtest.main reads from m
SummaryKeys ==
    {"total_trades", "total_pnl", "win_rate", "sharpe", "max_drawdown_pct",
     "profit_factor"}

InitMetrics ==
    /\ mode = "metrics" /\ pc \in {"call", "strategy"}
    /\ m_pnl_series \in SeqsUpTo(PnlValues, MaxTrades)
    /\ m_metrics = NoMetrics
    /\ IdleHeap /\ IdleBracket /\ IdlePool /\ IdleNewton /\ IdleScalar
    /\ IdleRoundTrip /\ IdleImport /\ IdleBacktest /\ IdleChunks

\* a direct call of calc_metrics
CalcMetricsCall ==
    /\ mode = "metrics" /\ pc = "call"
    /\ m_metrics' = calc_metrics(m_pnl_series)
    /\ pc' = "returned"
    /\ UNCHANGED << mode, m_pnl_series, heapVars, bVars, pVars, nVars, sVars,
                    rt_sigma, cpu_count, N_WORKERS, btVars, gVars >>

\* run_iv_rank_backtest, from the trades on: None, None without a trade,
\* else metrics = calc_metrics(trade_log["PnL"].values)
StrategyReturn ==
    /\ mode = "metrics" /\ pc = "strategy"
    /\ m_metrics' = IF Len(m_pnl_series) = 0 THEN NoneMetrics
                    ELSE calc_metrics(m_pnl_series)
    /\ pc' = "summary"
    /\ UNCHANGED << mode, m_pnl_series, heapVars, bVars, pVars, nVars, sVars,
                    rt_sigma, cpu_count, N_WORKERS, btVars, gVars >>

\* the line of the combined summary for the strategy: m[...] of a key the
\* dict does not have raises KeyError, outside every try block
Summary ==
    /\ mode = "metrics" /\ pc = "summary"
    /\ pc' = IF m_metrics = NoneMetrics THEN "error_line"
             ELSE IF SummaryKeys \subseteq DOMAIN m_metrics THEN "printed"
             ELSE "KeyError"
    /\ UNCHANGED << mode, mVars, heapVars, bVars, pVars, nVars, sVars,
                    rt_sigma, cpu_count, N_WORKERS, btVars, gVars >>

NextMetrics == CalcMetricsCall \/ StrategyReturn \/ Summary
SpecMetrics == InitMetrics /\ [][NextMetrics]_vars

-----------------------------------------------------------------------------
(* SpecDateChunks: generate_date_chunks(start, end, chunk_days).  A date is
   its ordinal; the calendar of the model runs from date.min = 1 to
   date.max = DateMax. *)

DateMax == 6
MaxChunkDays == 3

Dates == 1..DateMax

\* the values of chunk_days: negative, zero, positive
ChunkDays == -1..MaxChunkDays

\* iterations after which the model stops following a loop: more than a
\* loop that moves forward by a day each time can make
MaxLoop == DateMax + 1

InitDateChunks ==
    /\ mode = "chunks" /\ pc = "loop"
    /\ g_start \in Dates /\ g_end \in Dates /\ g_chunk_days \in ChunkDays
    /\ g_current_start = g_start
    /\ g_chunks = << >>
    /\ IdleHeap /\ IdleBracket /\ IdlePool /\ IdleNewton /\ IdleScalar
    /\ IdleRoundTrip /\ IdleImport /\ IdleBacktest /\ IdleMetrics

\* one iteration of the while loop (lines 69-72); date + timedelta raises
\* OverflowError when the sum is not a date
LoopStep ==
    /\ mode = "chunks" /\ pc = "loop"
    /\ g_current_start <= g_end
    /\ Len(g_chunks) < MaxLoop
    /\ LET t == g_current_start + (g_chunk_days - 1)
           current_end == Min(t, g_end)
       IN  IF t \notin Dates
           THEN pc' = "OverflowError" /\ UNCHANGED << g_chunks, g_current_start >>
           ELSE /\ g_chunks' = Append(g_chunks, << g_current_start, current_end >>)
                /\ IF current_end + 1 \notin Dates
                   THEN pc' = "OverflowError" /\ UNCHANGED g_current_start
                   ELSE pc' = pc /\ g_current_start' = current_end + 1
    /\ UNCHANGED << mode, g_start, g_end, g_chunk_days, heapVars, bVars, pVars,
                    nVars, sVars, rt_sigma, cpu_count, N_WORKERS, btVars, mVars >>

\* the loop condition fails: return chunks
ChunksReturn ==
    /\ mode = "chunks" /\ pc = "loop"
    /\ ~(g_current_start <= g_end)
    /\ pc' = "returned"
    /\ UNCHANGED << mode, gVars, heapVars, bVars, pVars, nVars, sVars,
                    rt_sigma, cpu_count, N_WORKERS, btVars, mVars >>

NextDateChunks == LoopStep \/ ChunksReturn
SpecDateChunks == InitDateChunks /\ [][NextDateChunks]_vars

\* C3: a row with T <= 0, mkt_price <= 0, S <= 0 or K <= 0 returns the
\* sentinel at once: _bs_price is not evaluated at either bound, brentq is not
\* called, and nothing is raised.
C3_InvalidRowImmediateSentinel ==
    ( /\ mode = "bracket" /\ pc # "call"
      /\ \/ b_args.T <= 0 \/ b_args.mkt_price <= 0
         \/ b_args.S <= 0 \/ b_args.K <= 0 )
    => /\ pc = "returned"
       /\ b_out = [ret |-> NaN, raised |-> "none", evals |-> 0, brentq |-> 0]

\* T = 0 exactly, on a row that would otherwise have been solved
C3_Witness ==
    /\ mode = "bracket" /\ pc = "returned"
    /\ b_args.T = 0 /\ b_args.S = 1 /\ b_args.K = 1 /\ b_args.mkt_price = 1
    /\ b_args.f_lo = -1 /\ b_args.f_hi = 1 /\ b_args.brentq.kind = "root"
    /\ b_out.ret = NaN /\ b_out.evals = 0

C8_FailuresBecomeSentinel ==
    mode = "bracket" =>
        /\ pc # "raised"
        /\ b_out.raised = "none"
        /\ (pc = "returned" /\ b_out.brentq = 1 /\ b_args.brentq.kind = "raise")
              => b_out.ret = NaN

\* brentq was called and did not converge
C8_Witness ==
    /\ mode = "bracket" /\ pc = "returned"
    /\ b_out.brentq = 1 /\ b_args.brentq.exc = "RuntimeError"
    /\ b_out.ret = NaN /\ b_out.raised = "none"


\* the single-process solve: _solve_iv applied to the rows in input order
Sequential(all_args) == [k \in 1..Len(all_args) |-> SolveIv(all_args[k]).ret]

\* C1: for every input, chunk size, worker count and order in which the
\* workers finish, every slot of iv_arr that has been stored holds what the
\* sequential solve gives for that row, and the finished iv_arr is the
\* sequential result row for row.
C1_PoolEqualsSequential ==
    mode = "pool" =>
        /\ pc # "raised"
        /\ \A k \in 1..Len(p_iv_arr) :
              p_writes[k] # << >> => p_iv_arr[k] = Sequential(p_all_args)[k]
        /\ pc \in {"iv_done", "greeks_done"} => p_iv_arr = Sequential(p_all_args)

\* two workers, the second chunk finished before the first, and the two
\* chunks have different results
C1_Witness ==
    /\ mode = "pool" /\ pc = "iv_done"
    /\ p_workers = 2 /\ Len(p_chunks) >= 2
    /\ p_finished[1] > p_finished[2]
    /\ p_iv_arr[1] # p_iv_arr[Len(p_iv_arr)]
    /\ p_iv_arr[1] # NaN

RECURSIVE Flatten(_)
Flatten(ss) == IF ss = << >> THEN << >> ELSE Head(ss) \o Flatten(Tail(ss))

\* the chunk (1-based) that holds row k (1-based)
ChunkOf(k, c) == ((k - 1) \div c) + 1

\* C2: the chunks are contiguous and disjoint and cover the rows (all of the
\* chunk size but possibly a shorter, non-empty last one); a slot of iv_arr
\* is written at most once, by the chunk that holds its row; when the run
\* completes every slot has been written and the output is as long as the
\* input.
C2_ChunksPartitionRows ==
    mode = "pool" =>
        /\ Flatten(p_chunks) = p_all_args
        /\ \A m \in 1..Len(p_chunks) :
              /\ Len(p_chunks[m]) >= 1
              /\ m < Len(p_chunks) => Len(p_chunks[m]) = p_sub
              /\ Len(p_chunks[m]) <= p_sub
        /\ \A k \in 1..Len(p_all_args) :
              p_writes[k] \in { << >>, << ChunkOf(k, p_sub) >> }
        /\ pc \in {"iv_done", "greeks_done"} =>
              /\ Len(p_iv_arr) = Len(p_all_args)
              /\ p_done = Len(p_all_args)
              /\ \A k \in 1..Len(p_all_args) : Len(p_writes[k]) = 1

\* three rows in chunks of two: the last chunk is the shorter one
C2_Witness ==
    /\ mode = "pool" /\ pc = "iv_done"
    /\ Len(p_all_args) = 3 /\ p_sub = 2
    /\ Len(p_chunks[2]) = 1
    /\ \A k \in 1..3 : p_writes[k] = << ChunkOf(k, 2) >>


\* the geometry of row i of a call of vectorized_iv, as the caller passed it
InvalidGeometry(i) ==
    \/ in0[4][i] <= 0 \/ in0[2][i] <= 0 \/ in0[3][i] <= 0 \/ in0[1][i] <= 0

\* C4: a row with T <= 0, S <= 0, K <= 0 or marketPrice <= 0 is in the active
\* set of no iteration of vectorized_iv, and its result is the sentinel.
C4_InvalidRowsNeverEnter ==
    mode = "newton" =>
        \A i \in 1..Len(n_result) :
            InvalidGeometry(i) => i \notin n_entered /\ n_result[i] = NaN

\* C5: a row still active when the iteration budget is used up ends with the
\* sentinel, and non-convergence is not raised to the caller, in
\* vectorized_iv and in implied_volatility.
C5_NonConvergenceIsSentinel ==
    /\ (mode = "newton" /\ pc = "returned") =>
          \A i \in 1..Len(n_result) : n_active[i] => n_result[i] = NaN
    /\ mode = "scalar" => pc # "raised"

\* the part of C5 about vectorized_iv alone
C5_VectorizedLeavesSentinel ==
    mode = "newton" =>
        /\ pc \in {"loop", "returned"}
        /\ pc = "returned" =>
              \A i \in 1..Len(n_result) : n_active[i] => n_result[i] = NaN

\* C6: in vectorized_iv the active mask only changes from true to false, and
\* a row that left the active set with the sentinel as its result keeps the
\* sentinel in every later iteration.
C6_GivenUpIsMonotonic ==
    [][ mode = "newton" =>
          \A i \in 1..Len(n_active) :
             /\ ~n_active[i] => ~n_active'[i]
             /\ (~n_active[i] /\ n_result[i] = NaN) => n_result'[i] = NaN ]_vars

\* a row given up for its vega in the first iteration (its sigma is still the
\* seed), and an iteration after that in which another row converged
C6_Witness ==
    /\ mode = "newton" /\ n_iter >= 2
    /\ \E i, k \in 1..Len(n_active) :
          /\ n_why[i] = "bad_vega" /\ n_sigma[i] = SigmaSeed
          /\ ~n_active[i] /\ n_result[i] = NaN
          /\ n_why[k] = "converged" /\ n_result[k] # SigmaSeed


\* the validity of row i of a call of compute_greeks_vectorized, from the
\* arrays the caller passed: sigma finite, sigma > 0, T > 0, S > 0, K > 0
GreeksDefined(i) ==
    /\ in0[4][i] # NaN /\ in0[4][i] > 0
    /\ in0[3][i] > 0 /\ in0[1][i] > 0 /\ in0[2][i] > 0

GreekNames == {"delta", "gamma", "vega", "theta", "rho"}

\* C9: the five arrays returned have the length of the input; on a row where
\* the mask holds all five Greeks are numbers, on every other row (a sentinel
\* IV among them) all five are the sentinel.
C9_GreeksMasked ==
    (mode = "greeks" /\ pc = "returned") =>
        \A g \in GreekNames :
            /\ Len(heap[loc[g]]) = Len(in0[4])
            /\ \A i \in 1..Len(in0[4]) :
                  IF GreeksDefined(i) THEN heap[loc[g]][i] # NaN
                  ELSE heap[loc[g]][i] = NaN

\* a row whose IV is the sentinel before a put with a solved IV
C9_Witness ==
    /\ mode = "greeks" /\ pc = "returned"
    /\ Len(in0[4]) = 2
    /\ in0[4][1] = NaN /\ in0[3][1] = 1 /\ in0[1][1] = 1 /\ in0[2][1] = 1
    /\ GreeksDefined(2) /\ ~in0[5][2]
    /\ heap[loc.delta] = << NaN, -1 >>
    /\ heap[loc.gamma] = << NaN, 1 >>

\* C10: vectorized_iv, _solve_iv_chunk and compute_greeks_vectorized leave
\* every input buffer as it was at the call, and what they build and return
\* is in buffers of their own.
C10_InputsNotMutated ==
    mode \in {"newton", "greeks", "chunk"} =>
        /\ \A id \in 1..Len(in0) : heap[id] = in0[id]
        /\ mode = "newton" =>
              /\ {loc.sigma, loc.result, loc.active} \cap 1..Len(in0) = {}
              /\ Cardinality({loc.sigma, loc.result, loc.active}) = 3
        /\ (mode = "greeks" /\ pc = "returned") =>
              /\ {loc[g] : g \in GreekNames} \cap 1..Len(in0) = {}
              /\ Cardinality({loc[g] : g \in GreekNames}) = 5
        /\ (mode = "chunk" /\ pc = "returned") => loc.results > Len(in0)

\* vectorized_iv has returned after updating sigma and writing a result
C10_Witness ==
    /\ mode = "newton" /\ pc = "returned" /\ n_iter = max_iter
    /\ \E i \in 1..Len(n_result) : n_result[i] # NaN /\ n_result[i] # SigmaSeed
    /\ \A id \in 1..Len(in0) : heap[id] = in0[id]

\* C11: round trip, for _solve_iv and for vectorized_iv: the price of a
\* contract with T > 0, S > 0, K > 0 at a volatility of (0, 5), solved, gives a
\* number (never the sentinel) equal to that volatility up to the tolerance.
C11_RoundTripRecovers ==
    rt_sigma # << >> =>
        /\ (mode = "bracket" /\ pc # "call") =>
              /\ pc = "returned"
              /\ b_out.ret # NaN /\ b_out.ret = rt_sigma[1]
        /\ (mode = "newton" /\ pc = "returned") =>
              \A i \in 1..Len(n_result) :
                  n_result[i] # NaN /\ n_result[i] = rt_sigma[i]

\* C12: what a chunk worker returns has the length of its chunk and holds at
\* position j the result of row j: the sentinel for an expired row and for a
\* row on which brentq fails, the root otherwise; no worker raises and the
\* pool run is not aborted.
C12_ChunkResultsAligned ==
    mode = "pool" =>
        /\ pc # "raised"
        /\ \A m \in 1..Len(p_chunks) :
              p_ready[m].raised \notin {"pending", "taken"} =>
                  /\ p_ready[m].raised = "none"
                  /\ Len(p_ready[m].results) = Len(p_chunks[m])
                  /\ \A j \in 1..Len(p_chunks[m]) :
                        p_ready[m].results[j] =
                            IF p_chunks[m][j].T <= 0 \/ p_chunks[m][j].brentq.kind = "raise"
                            THEN NaN ELSE p_chunks[m][j].brentq.val

\* a chunk whose first row fails in brentq and whose second row is solved
C12_Witness ==
    /\ mode = "pool"
    /\ \E m \in 1..Len(p_chunks) :
          /\ Len(p_chunks[m]) = 2
          /\ p_chunks[m][1].brentq.exc = "RuntimeError"
          /\ p_ready[m].raised = "none"
          /\ p_ready[m].results = << NaN, 146 >>

\* C13: compute_greeks_vectorized is called only when the result of every
\* chunk has been taken and stored: every slot of the IV array it reads has
\* been written by its chunk, and the array it reads is the finished one.
C13_GreeksAfterAllChunks ==
    (mode = "pool" /\ p_greeks # NoGreeks) =>
        /\ p_i = Len(p_chunks)
        /\ \A m \in 1..Len(p_chunks) : p_ready[m].raised = "taken"
        /\ \A k \in 1..Len(p_all_args) : Len(p_writes[k]) = 1
        /\ Len(p_greeks.sigma) = Len(p_all_args)
        /\ p_greeks.sigma = p_iv_arr

\* two workers finished two chunks out of order, and the Greeks of a solved
\* row of the last chunk are numbers
C13_Witness ==
    /\ mode = "pool" /\ pc = "greeks_done"
    /\ p_workers = 2 /\ Len(p_chunks) >= 2
    /\ p_finished[1] > p_finished[2]
    /\ p_greeks.valid[Len(p_all_args)]
    /\ p_greeks.delta[Len(p_all_args)] # NaN

\* C14: a round of main's loop changes iv_arr by the store of its chunk's
\* results alone, whether or not the round prints a progress line: the slots
\* of the chunk get the chunk's results, every other slot and the length stay,
\* and done grows by the chunk's length.
C14_ReportLeavesResult ==
    [][ (mode = "pool" /\ p_i' # p_i) =>
          LET chunk == p_chunks[p_i + 1]
              lo == p_i * p_sub
          IN  /\ Len(p_iv_arr') = Len(p_iv_arr)
              /\ p_done' = p_done + Len(chunk)
              /\ p_reports' \in {p_reports, p_reports + 1}
              /\ \A k \in 1..Len(p_iv_arr) :
                    p_iv_arr'[k] =
                       IF lo < k /\ k <= lo + Len(chunk)
                       THEN IF chunk[k - lo].T <= 0 \/ chunk[k - lo].brentq.kind = "raise"
                            THEN NaN ELSE chunk[k - lo].brentq.val
                       ELSE p_iv_arr[k] ]_vars

\* a progress line was printed for its period while rows are still to come,
\* after a round that printed none, and the chunk stored last holds a solved
\* row before a failed one
C14_Witness ==
    /\ mode = "pool" /\ pc = "collect"
    /\ p_i = ReportEvery /\ p_reports = 1 /\ p_done < Len(p_all_args)
    /\ p_sub = 1
    /\ p_iv_arr[1] = 146 /\ p_iv_arr[2] = NaN /\ Len(p_writes[2]) = 1

\* the arrays of a call are not all of one length
Mismatched == \E a, b \in 1..Len(in0) : Len(in0[a]) # Len(in0[b])

\* C15: on input arrays of different lengths vectorized_iv,
\* compute_greeks_vectorized and the construction of all_args fail: none of
\* them returns a result.
C15_MismatchIsHardFailure ==
    (mode \in ShapeModes /\ pc # "call" /\ Mismatched) => pc = "raised"

\* C16: N_WORKERS is assigned for every value of os.cpu_count(), a number or
\* None: it is the count minus one and at least 1.
C16_DefaultWorkers ==
    (mode = "import" /\ pc # "line33") =>
        /\ pc = "assigned"
        /\ N_WORKERS >= 1
        /\ cpu_count # None => N_WORKERS = Max(1, cpu_count - 1)

\* C17: after every row each symbol has at most one open position, and a
\* position that is new after a row was opened by that row: the row's IV rank
\* is below 20, and its symbol had no open position or the row closed it.
C17_OnePositionPerSymbol ==
    [][ mode = "backtest" =>
          /\ \A e, f \in open_positions' : e.TckrSymb = f.TckrSymb => e = f
          /\ \A e \in open_positions' \ open_positions :
                /\ e = bt_row'
                /\ e.IVRank < 20
                /\ \/ ~\E f \in open_positions : f.TckrSymb = e.TckrSymb
                   \/ /\ bt_trade' # NoTrade
                      /\ \E f \in open_positions :
                            /\ f.TckrSymb = e.TckrSymb
                            /\ f.TradDt = bt_trade'.EntryDate ]_vars

\* both symbols hold a position, and a row below the entry level has just
\* closed a position for its age and opened the next one
C17_Witness ==
    /\ mode = "backtest"
    /\ Cardinality(open_positions) = 2
    /\ bt_trade.ExitReason = "MaxDays"
    /\ bt_row.IVRank = 10
    /\ bt_row \in open_positions

\* the trading days after day a up to day b
TradingDaysHeld(a, b) == Cardinality({ x \in (a + 1)..b : IsTradingDay(x) })

\* C18: a row closes the open position of its symbol exactly when its IV rank
\* is above 50 or the position has been held for 15 trading days, and no
\* position is open for more than 15 trading days.
C18_ClosedByRankOrFifteenTradingDays ==
    [][ mode = "backtest" =>
          /\ \A e \in open_positions :
                e.TckrSymb = bt_row'.TckrSymb =>
                   ( e \notin open_positions' <=>
                        \/ bt_row'.IVRank > 50
                        \/ TradingDaysHeld(e.TradDt, bt_row'.TradDt) >= 15 )
          /\ \A e \in open_positions' :
                TradingDaysHeld(e.TradDt, bt_row'.TradDt) <= 15 ]_vars

\* C19: in an iteration of vectorized_iv every active row is evaluated, and a
\* row found converged (|diff| < tol) gets the sigma its price was evaluated
\* at as its result and leaves the active set in that iteration.
C19_ConvergedWritesTrialSigma ==
    [][ (mode = "newton" /\ n_iter' = n_iter + 1) =>
          \A i \in 1..Len(n_active) :
             n_active[i] =>
                /\ n_out'[i] # NotEvaluated
                /\ n_out'[i].conv =>
                      /\ n_result'[i] = n_sigma[i]
                      /\ ~n_active'[i] ]_vars

\* a row converged in the second iteration, at the sigma of its Newton step,
\* with a vega that is also below the threshold
C19_Witness ==
    /\ mode = "newton" /\ n_iter = 2
    /\ \E i \in 1..Len(n_active) :
          /\ n_out[i].conv /\ n_out[i].badv
          /\ n_result[i] = n_sigma[i] /\ n_result[i] # SigmaSeed
          /\ ~n_active[i]

\* C20: in an iteration of vectorized_iv an active row whose vega is below
\* 1e-12 and which is not converged leaves the active set in that iteration,
\* its result stays the sentinel and its sigma is not updated.
C20_BadVegaGivenUp ==
    [][ (mode = "newton" /\ n_iter' = n_iter + 1) =>
          \A i \in 1..Len(n_active) :
             (n_active[i] /\ n_out'[i].badv /\ ~n_out'[i].conv) =>
                /\ ~n_active'[i]
                /\ n_result[i] = NaN /\ n_result'[i] = NaN
                /\ n_sigma'[i] = n_sigma[i] ]_vars

\* a row given up for its vega in the second iteration, after a Newton step,
\* next to a row that is still active
C20_Witness ==
    /\ mode = "newton" /\ n_iter = 2
    /\ \E i, k \in 1..Len(n_active) :
          /\ n_out[i].badv /\ ~n_out[i].conv
          /\ ~n_active[i] /\ n_result[i] = NaN
          /\ n_sigma[i] # SigmaSeed /\ n_sigma[i] # NaN
          /\ n_active[k]

\* C21: in an iteration of vectorized_iv a row that takes the Newton update
\* and whose sigma after the update is <= 0 or > 10 leaves the active set in
\* that iteration, and its result is the sentinel before and after.
C21_DivergentDeactivated ==
    [][ (mode = "newton" /\ n_iter' = n_iter + 1) =>
          \A i \in 1..Len(n_active) :
             ( /\ n_active[i] /\ ~n_out'[i].conv /\ ~n_out'[i].badv
               /\ LET x == FSub(n_sigma[i], n_out'[i].quot)
                  IN  ~IsNaN(x) /\ (x <= 0 \/ x > 10000) ) =>
                /\ ~n_active'[i]
                /\ n_result[i] = NaN /\ n_result'[i] = NaN ]_vars

\* a row whose first step gave exactly 10 (kept) and whose second step gave
\* 19.7: it was given up in the second iteration
C21_Witness ==
    /\ mode = "newton" /\ n_iter = 2
    /\ \E i \in 1..Len(n_active) :
          /\ n_why[i] = "bad_sigma" /\ n_out[i].quot = -9700
          /\ ~n_active[i] /\ n_result[i] = NaN

\* C22: within one iteration of vectorized_iv a row found converged is taken
\* as converged also when its vega is below the threshold (numeric result, no
\* update of sigma); a row with a small vega that is not converged is given
\* up without an update; only the other rows take the update, and the guard
\* on sigma looks at the value after the update: such a row is in
\* bad_sigma_idx exactly when its updated sigma is <= 0 or > 10.
C22_OrderOfChecks ==
    [][ (mode = "newton" /\ n_iter' = n_iter + 1) =>
          \A i \in 1..Len(n_active) :
             n_active[i] =>
                LET o == n_out'[i]
                    x == FSub(n_sigma[i], o.quot)
                    bad == ~IsNaN(x) /\ (x <= 0 \/ x > 10000)
                IN  /\ o.conv =>
                          /\ i \in n_sets'.converged /\ i \notin n_sets'.failed
                          /\ i \notin n_sets'.bad_sigma
                          /\ n_result'[i] = n_sigma[i] /\ n_result'[i] # NaN
                          /\ n_sigma'[i] = n_sigma[i]
                    /\ (o.badv /\ ~o.conv) =>
                          /\ i \in n_sets'.failed /\ i \notin n_sets'.bad_sigma
                          /\ n_sigma'[i] = n_sigma[i]
                    /\ (~o.conv /\ ~o.badv) =>
                          /\ (i \in n_sets'.bad_sigma) <=> bad
                          /\ n_sigma'[i] = IF bad THEN NaN ELSE x ]_vars

\* in one iteration, after a first Newton step: one row converged with a
\* small vega, the other took a step from a sigma inside the range to one
\* outside it
C22_Witness ==
    /\ mode = "newton" /\ n_iter = 2
    /\ \E i, k \in 1..Len(n_active) :
          /\ n_out[i].conv /\ n_out[i].badv /\ i \in n_sets.converged
          /\ n_result[i] = 10000
          /\ k \in n_sets.bad_sigma /\ n_out[k].quot = -9700

\* C23: vectorized_iv returns in every run; it executes at most max_iter
\* iterations, an iteration starts only while some row is active, and a call
\* with no rows returns an empty result without any iteration.
C23_NewtonTerminates ==
    /\ [](mode = "newton" => n_iter <= max_iter)
    /\ [][ n_iter' = n_iter + 1 => \E i \in 1..Len(n_active) : n_active[i] ]_vars
    /\ []((mode = "newton" /\ Len(n_result) = 0) => n_iter = 0)
    /\ <>(pc = "returned")

\* a call of two rows that returned after one iteration of the two allowed,
\* no row being active any more
C23_Witness ==
    /\ mode = "newton" /\ pc = "returned"
    /\ n_iter = 1 /\ n_iter < max_iter /\ Len(n_active) = 2
    /\ \A i \in 1..Len(n_active) : ~n_active[i]

\* C24: the three index arrays of an iteration of vectorized_iv (converged_idx,
\* failed_idx, bad_sigma_idx) are pairwise disjoint and hold rows that were
\* active when the iteration began; a row that left the active set never
\* returns to it, so a row is in such an array at most once in a call.
C24_DeactivationSetsDisjoint ==
    [][ (mode = "newton" /\ n_iter' = n_iter + 1) =>
          /\ n_sets'.converged \cap n_sets'.failed = {}
          /\ n_sets'.converged \cap n_sets'.bad_sigma = {}
          /\ n_sets'.failed \cap n_sets'.bad_sigma = {}
          /\ \A i \in 1..Len(n_active) :
                LET left == i \in (n_sets'.converged \cup n_sets'.failed
                                       \cup n_sets'.bad_sigma)
                IN  /\ left => n_active[i]
                    /\ n_active'[i] <=> (n_active[i] /\ ~left) ]_vars

\* a second iteration in which one row leaves as converged, its vega being
\* small as well, and another is given up for its vega
C24_Witness ==
    /\ mode = "newton" /\ n_iter = 2
    /\ \E i, k \in 1..Len(n_active) :
          /\ i \in n_sets.converged /\ n_out[i].badv
          /\ k \in n_sets.failed

\* C25: at every point of a call of vectorized_iv the result of a row is a
\* number exactly when the row left the active set as converged; the rows
\* still active and the rows given up for their vega or their sigma have the
\* sentinel.
C25_NumericIffConverged ==
    mode = "newton" =>
       \A i \in 1..Len(n_result) :
          /\ (n_result[i] # NaN) <=> (n_why[i] = "converged")
          /\ n_active[i] <=> (n_why[i] = StillActive)
          /\ n_why[i] \in {StillActive, "bad_vega", "bad_sigma"} => n_result[i] = NaN

\* after two iterations: one row converged, one given up for its sigma
C25_Witness ==
    /\ mode = "newton" /\ pc = "returned" /\ n_iter = 2
    /\ \E i, k \in 1..Len(n_result) :
          /\ n_why[i] = "converged" /\ n_result[i] # NaN
          /\ n_why[k] = "bad_sigma" /\ n_result[k] = NaN

\* C26: every number in the result of vectorized_iv is in (0, 10], and the
\* sigma of a row that is still active (the one the next iteration evaluates)
\* is never a number <= 0 or > 10.
C26_ResultsInRange ==
    mode = "newton" =>
       \A i \in 1..Len(n_result) :
          /\ n_result[i] # NaN => (n_result[i] > 0 /\ n_result[i] <= 10000)
          /\ (n_active[i] /\ n_sigma[i] # NaN) =>
                (n_sigma[i] > 0 /\ n_sigma[i] <= 10000)

\* a result of exactly 10 returned next to a row whose step left the range
C26_Witness ==
    /\ mode = "newton" /\ pc = "returned"
    /\ \E i, k \in 1..Len(n_result) :
          /\ n_result[i] = 10000
          /\ n_why[k] = "bad_sigma" /\ n_sigma[k] = NaN

\* C27: a number returned by _solve_iv is in [IV_LOWER, IV_UPPER], that is
\* in [0.001, 5.0].
C27_BracketResultInBounds ==
    (mode = "bracket" /\ pc = "returned" /\ b_out.ret # NaN) =>
       (b_out.ret >= 1 /\ b_out.ret <= 5000)

\* the root-finder returned the upper end of the bracket
C27_Witness ==
    /\ mode = "bracket" /\ pc = "returned"
    /\ b_out.brentq = 1 /\ b_out.ret = 5000

\* C28: a call of _solve_iv on a valid row whose price difference is exactly
\* zero at IV_LOWER or at IV_UPPER invokes the root-finder; the bracket test
\* sends back the sentinel (two evaluations, no call of the root-finder) only
\* when the two differences are both positive or both negative.
C28_ZeroAtBoundIsBracketed ==
    (mode = "bracket" /\ pc # "call"
       /\ b_args.T = 1 /\ b_args.mkt_price = 1 /\ b_args.S = 1 /\ b_args.K = 1) =>
       /\ (b_args.f_lo = 0 \/ b_args.f_hi = 0) => b_out.brentq = 1
       /\ (b_out.evals = 2 /\ b_out.brentq = 0) =>
             /\ b_out.ret = NaN
             /\ \/ b_args.f_lo = 1 /\ b_args.f_hi = 1
                \/ b_args.f_lo = -1 /\ b_args.f_hi = -1

\* the difference is zero at the lower bound and positive at the upper one,
\* and the root-finder returned the lower bound
C28_Witness ==
    /\ mode = "bracket" /\ pc = "returned"
    /\ b_args.f_lo = 0 /\ b_args.f_hi = 1
    /\ b_out.brentq = 1 /\ b_out.ret = 1

\* C29: calc_metrics returns a dict with the same keys for every P&L series
\* (the keys of the dict of a series with finite values), and the summary
\* line of the runner never raises KeyError on the metrics of a strategy.
C29_SameKeysForEveryInput ==
    mode = "metrics" =>
       /\ (pc # "call" /\ m_metrics # NoMetrics /\ m_metrics # NoneMetrics) =>
             DOMAIN m_metrics =
                {"total_trades", "total_pnl", "avg_pnl", "win_rate",
                 "max_drawdown_pct", "sharpe", "profit_factor"}
       /\ pc # "KeyError"

\* C30: generate_date_chunks returns for every start, end and chunk_days: no
\* date arithmetic fails, every iteration moves current_start forward (so the
\* loop ends), and the list returned is empty when start > end and otherwise
\* holds consecutive ranges from start to end of at most chunk_days days each.
C30_DateChunksTerminateAndCover ==
    /\ [](mode = "chunks" => pc # "OverflowError")
    /\ [][ (mode = "chunks" /\ pc' = "loop" /\ Len(g_chunks') = Len(g_chunks) + 1)
              => g_current_start' > g_current_start ]_vars
    /\ []( (mode = "chunks" /\ pc = "returned") =>
             IF g_start > g_end THEN g_chunks = << >>
             ELSE /\ Len(g_chunks) >= 1
                  /\ g_chunks[1][1] = g_start
                  /\ g_chunks[Len(g_chunks)][2] = g_end
                  /\ \A k \in 1..Len(g_chunks) :
                        /\ g_chunks[k][1] <= g_chunks[k][2]
                        /\ g_chunks[k][2] - g_chunks[k][1] + 1 <= g_chunk_days
                        /\ k < Len(g_chunks) =>
                              g_chunks[k + 1][1] = g_chunks[k][2] + 1 )

=============================================================================
